---- MODULE Spec2Model ----
(***************************************************************************)
(* Model of the authorization-aware search pagination of the Backstage     *)
(* search backend: AuthorizedSearchEngine.query, its result filter, the    *)
(* per-query DataLoader that carries the authorization requests, and the   *)
(* page cursor codec (decodePageCursor / encodePageCursor).                *)
(*                                                                         *)
(* JavaScript values are represented as follows.                           *)
(*   - a number is a record [nan, v]: NaN, or the integer v;               *)
(*   - a decoded (utf-8) string is a sequence of character codes;          *)
(*   - a base64 token is a sequence of one-character strings;              *)
(*   - undefined, where a token is expected, is the value Undefined.       *)
(***************************************************************************)
EXTENDS Integers, Sequences, FiniteSets, TLC

VARIABLES
    \* ---- collaborators and configuration (fixed by construction) ----
    types,                 \* this.types: type name -> visibilityPermission or NoPermission
    decisions,             \* the authorizer's policy: [permission, resourceRef] -> decision
    enginePages,           \* the underlying engine's contents, split into its own pages
    engineMode,            \* the underlying engine: "honours" or "ignores" the `types`
                           \* restriction, or is "endless"
    queryLatencyBudgetMs,  \* this.queryLatencyBudgetMs
    \* ---- one invocation of query() ----
    current,               \* which invocation of query() is running: 1 or 2
    suspended,             \* the other invocation, parked at an await: its locals
    pc,                    \* position of the invocation
    options,               \* the QueryRequestOptions argument: [token]
    now,                   \* Date.now()
    query,                 \* the SearchQuery argument: [types, pageCursor]
    queryStartTime,
    loopStartTime,         \* Date.now() when the do-while loop is entered
    loaderCache,           \* the DataLoader's cache map: the cache keys seen so far
    nextOid,               \* allocation counter: identity of the next request object
    pendingTypeLoads,      \* loads queued by the type authorizer, not yet dispatched
    requestedTypes,
    typeDecisions,         \* requested type -> decision
    authorizedTypes,
    page,
    targetResults,
    filteredResults,
    nextPageCursor,
    latencyBudgetExhausted,
    nextPage,              \* the last response of the underlying engine
    response,              \* the SearchResultSet returned by query()
    failure,               \* the rejected await that ended the invocation, if any
    \* ---- history (observations of the invocation's effects) ----
    authCalls,             \* every call of permissions.authorize: its request list
    authOptions,           \* the options passed on each of those calls
    engineCalls,           \* every call of searchEngine.query: [types, pageCursor]
    fetched,               \* every result received from the underlying engine, in order
    resourceChecked,       \* ids of the results a per-resource load was issued for
    elapsedLog,            \* the elapsed time read at each loop-iteration boundary
    \* ---- cursor codec exercised on its own ----
    cpc, cpage, ctoken, cresult,
    \* ---- readMicrosoftGraphConfig exercised on its own ----
    cfgPc,                 \* position of the call
    cfgProviders,          \* the 'providers' array of the configuration: << >> or << array >>
    cfgResult              \* what the call returned, or that it threw

vars == << types, decisions, enginePages, engineMode, queryLatencyBudgetMs,
           current, suspended, pc, options, now, query, queryStartTime, loopStartTime, loaderCache, nextOid, pendingTypeLoads,
           requestedTypes, typeDecisions, authorizedTypes, page, targetResults,
           filteredResults, nextPageCursor, latencyBudgetExhausted, nextPage,
           response, failure, authCalls, authOptions, engineCalls, fetched, resourceChecked, elapsedLog,
           cpc, cpage, ctoken, cresult, cfgPc, cfgProviders, cfgResult >>

queryVars == << types, decisions, enginePages, engineMode, queryLatencyBudgetMs,
           current, suspended, pc, options, now, query, queryStartTime, loopStartTime, loaderCache, nextOid, pendingTypeLoads,
           requestedTypes, typeDecisions, authorizedTypes, page, targetResults,
           filteredResults, nextPageCursor, latencyBudgetExhausted, nextPage,
           response, failure, authCalls, authOptions, engineCalls, fetched, resourceChecked, elapsedLog >>

codecVars == << cpc, cpage, ctoken, cresult >>

configVars == << cfgPc, cfgProviders, cfgResult >>

----------------------------------------------------------------------------
(* Bounds of the model *)

\* largest page index a client cursor encodes in the query specification
MaxCursorPage == 2
\* largest page index the codec specification encodes
MaxCodecPage == 120

----------------------------------------------------------------------------
(* JavaScript numbers and sequences *)

NaN == [nan |-> TRUE, v |-> 0]
Num(i) == [nan |-> FALSE, v |-> i]

NumAdd(x, i) == IF x.nan THEN NaN ELSE Num(x.v + i)
NumMul(x, i) == IF x.nan THEN NaN ELSE Num(x.v * i)
\* i < x and i > x for an integer i and a number x: false when x is NaN
IntLtNum(i, x) == ~x.nan /\ i < x.v
IntGtNum(i, x) == ~x.nan /\ i > x.v
\* x === 0
NumIsZero(x) == ~x.nan /\ x.v = 0

Min(a, b) == IF a < b THEN a ELSE b
Max(a, b) == IF a > b THEN a ELSE b

\* ToIntegerOrInfinity of a slice argument, made relative to the length
RelativeIndex(x, len) ==
    IF x.nan THEN 0
    ELSE IF x.v < 0 THEN Max(len + x.v, 0)
    ELSE Min(x.v, len)

\* Array.prototype.slice(start, end)
Slice(s, start, end) ==
    LET from == RelativeIndex(start, Len(s))
        to   == RelativeIndex(end, Len(s))
    IN  IF from < to THEN SubSeq(s, from + 1, to) ELSE << >>

RECURSIVE Flatten(_)
Flatten(ss) == IF ss = << >> THEN << >> ELSE Head(ss) \o Flatten(Tail(ss))

Range(s) == { s[i] : i \in DOMAIN s }

----------------------------------------------------------------------------
(* Cursor codec *)

Undefined == << "undefined" >>

Base64Alphabet ==
    << "A","B","C","D","E","F","G","H","I","J","K","L","M","N","O","P",
       "Q","R","S","T","U","V","W","X","Y","Z","a","b","c","d","e","f",
       "g","h","i","j","k","l","m","n","o","p","q","r","s","t","u","v",
       "w","x","y","z","0","1","2","3","4","5","6","7","8","9","+","/" >>

B64Char(sextet) == Base64Alphabet[sextet + 1]
B64Value(c) == (CHOOSE i \in DOMAIN Base64Alphabet : Base64Alphabet[i] = c) - 1
IsB64Char(c) == \E i \in DOMAIN Base64Alphabet : Base64Alphabet[i] = c

\* decimal digits of a natural number, as character codes
RECURSIVE Digits(_)
Digits(n) == IF n < 10 THEN << 48 + n >> ELSE Digits(n \div 10) \o << 48 + (n % 10) >>

\* the template literal `${page}`
NumberToString(x) ==
    IF x.nan THEN << 78, 97, 78 >>
    ELSE IF x.v < 0 THEN << 45 >> \o Digits(-x.v)
    ELSE Digits(x.v)

\* Buffer.from(str, 'utf-8'): the strings produced by NumberToString are ASCII
Utf8Encode(str) == str

\* buffer.toString('utf-8'): a byte that starts no ASCII character decodes to
\* the replacement character U+FFFD
Utf8Decode(bytes) == [i \in DOMAIN bytes |-> IF bytes[i] < 128 THEN bytes[i] ELSE 65533]

\* buffer.toString('base64')
RECURSIVE Base64Encode(_)
Base64Encode(bytes) ==
    IF Len(bytes) = 0 THEN << >>
    ELSE IF Len(bytes) = 1 THEN
        << B64Char(bytes[1] \div 4), B64Char((bytes[1] % 4) * 16), "=", "=" >>
    ELSE IF Len(bytes) = 2 THEN
        << B64Char(bytes[1] \div 4),
           B64Char((bytes[1] % 4) * 16 + bytes[2] \div 16),
           B64Char((bytes[2] % 16) * 4), "=" >>
    ELSE
        << B64Char(bytes[1] \div 4),
           B64Char((bytes[1] % 4) * 16 + bytes[2] \div 16),
           B64Char((bytes[2] % 16) * 4 + bytes[3] \div 64),
           B64Char(bytes[3] % 64) >>
        \o Base64Encode(SubSeq(bytes, 4, Len(bytes)))

\* the sextets of a token: decoding stops at the padding, and characters
\* outside the alphabet are skipped
RECURSIVE Sextets(_)
Sextets(token) ==
    IF token = << >> \/ Head(token) = "=" THEN << >>
    ELSE IF IsB64Char(Head(token)) THEN << B64Value(Head(token)) >> \o Sextets(Tail(token))
    ELSE Sextets(Tail(token))

RECURSIVE SextetsToBytes(_)
SextetsToBytes(s) ==
    IF Len(s) < 2 THEN << >>
    ELSE IF Len(s) = 2 THEN << s[1] * 4 + s[2] \div 16 >>
    ELSE IF Len(s) = 3 THEN
        << s[1] * 4 + s[2] \div 16, (s[2] % 16) * 16 + s[3] \div 4 >>
    ELSE
        << s[1] * 4 + s[2] \div 16, (s[2] % 16) * 16 + s[3] \div 4, (s[3] % 4) * 64 + s[4] >>
        \o SextetsToBytes(SubSeq(s, 5, Len(s)))

\* a decoder that drops a trailing group of fewer than four characters
Base64DecodeWholeGroups(token) ==
    LET s == Sextets(token) IN SextetsToBytes(SubSeq(s, 1, Len(s) - (Len(s) % 4)))

\* Buffer.from(token, 'base64')
Base64Decode(token) == SextetsToBytes(Sextets(token))

IsWhiteSpace(c) == c \in {9, 10, 11, 12, 13, 32}
IsDigit(c) == c \in 48..57

RECURSIVE TrimLeft(_)
TrimLeft(s) == IF s # << >> /\ IsWhiteSpace(Head(s)) THEN TrimLeft(Tail(s)) ELSE s

RECURSIVE TrimRight(_)
TrimRight(s) ==
    IF s # << >> /\ IsWhiteSpace(s[Len(s)]) THEN TrimRight(SubSeq(s, 1, Len(s) - 1)) ELSE s

RECURSIVE DigitsValue(_)
DigitsValue(s) ==
    IF s = << >> THEN 0 ELSE DigitsValue(SubSeq(s, 1, Len(s) - 1)) * 10 + (s[Len(s)] - 48)

\* Number(str) on the strings of the model: white space is trimmed, the empty
\* string is 0, an optionally signed run of decimal digits is its value, and
\* any other string of the model (none has a fraction, an exponent, a radix
\* prefix or spells Infinity) is NaN
StringToNumber(str) ==
    LET t == TrimRight(TrimLeft(str))
        signed == t # << >> /\ Head(t) \in {43, 45}
        body == IF signed THEN Tail(t) ELSE t
    IN  IF t = << >> THEN Num(0)
        ELSE IF body # << >> /\ \A i \in DOMAIN body : IsDigit(body[i])
             THEN Num(IF signed /\ Head(t) = 45 THEN -DigitsValue(body) ELSE DigitsValue(body))
        ELSE NaN

\* !pageCursor
Falsy(token) == token = Undefined \/ token = << >>

\* each intermediate value is bound once, as the code computes it once
decodePageCursor(pageCursor) ==
    IF Falsy(pageCursor) THEN Num(0)
    ELSE CHOOSE number \in { StringToNumber(str) :
                                str \in { Utf8Decode(buffer) :
                                             buffer \in { Base64Decode(pageCursor) } } } : TRUE

encodePageCursor(p) == Base64Encode(Utf8Encode(NumberToString(p)))

----------------------------------------------------------------------------
(* Collaborators: type registry, authorizer policy, underlying engine *)

ALLOW == "ALLOW"
DENY == "DENY"
CONDITIONAL == "CONDITIONAL"

NoPermission == "undefined"
NoRef == "undefined"

Permissions == {"c1", "c2"}
ResourceRefs == {"r1", "r2"}

\* Object.keys(this.types), in insertion order
TypeNames == << "t1", "t2", "t3", "t4" >>

\* the registry of the model: t1 and t3 share a visibility permission, t4 has none
Registry == [t \in Range(TypeNames) |->
                CASE t = "t1" -> "c1"
                  [] t = "t2" -> "c2"
                  [] t = "t3" -> "c1"
                  [] OTHER    -> NoPermission]

\* every authorizer policy: a decision per permission alone (which may be
\* conditional) and a definite decision per (permission, resourceRef)
Policies ==
    { [k \in Permissions \X (ResourceRefs \cup {NoRef}) |->
          IF k[2] = NoRef THEN tl[k[1]] ELSE rl[k] ] :
      tl \in [Permissions -> {ALLOW, DENY, CONDITIONAL}],
      rl \in [Permissions \X ResourceRefs -> {ALLOW, DENY}] }

\* the kinds of document an engine of the model holds
Kinds ==
    << [type |-> "t1", resourceRef |-> "r1"], [type |-> "t4", resourceRef |-> NoRef],
       [type |-> "t2", resourceRef |-> "r1"], [type |-> "t1", resourceRef |-> NoRef],
       [type |-> "t3", resourceRef |-> "r1"], [type |-> "t2", resourceRef |-> "r2"],
       [type |-> "t1", resourceRef |-> "r2"], [type |-> "t4", resourceRef |-> "r1"],
       [type |-> "t2", resourceRef |-> NoRef], [type |-> "t3", resourceRef |-> "r2"],
       [type |-> "t3", resourceRef |-> NoRef], [type |-> "t4", resourceRef |-> "r2"] >>

\* the id-th document of an engine: ids grow along the engine's relevance order
Document(id, seed) ==
    LET k == Kinds[((id * 5 + seed) % Len(Kinds)) + 1]
    IN  [id |-> id, type |-> k.type, resourceRef |-> k.resourceRef]

RECURSIVE SumSeq(_)
SumSeq(s) == IF s = << >> THEN 0 ELSE Head(s) + SumSeq(Tail(s))

\* an engine whose i-th page holds layout[i] documents
MkEngine(layout, seed) ==
    [i \in DOMAIN layout |->
        [j \in 1..layout[i] |-> Document(SumSeq(SubSeq(layout, 1, i - 1)) + j, seed)]]

\* searchEngine.query({...query, types, pageCursor}): the engine's own cursor
\* names the index of its next page; an engine that honours `types` returns
\* only documents of the listed types, one that ignores it returns them all;
\* a cursor that names no page of the engine yields an empty last page.  An
\* endless engine honours `types`, serves its pages over and over, and
\* reports a further page on every response
EngineQuery(typesArg, pageCursor) ==
    LET idx == IF pageCursor = Undefined THEN 1 ELSE decodePageCursor(pageCursor).v + 1
        raw == IF engineMode = "endless" /\ idx >= 1
               THEN enginePages[((idx - 1) % Len(enginePages)) + 1]
               ELSE IF idx \in DOMAIN enginePages THEN enginePages[idx] ELSE << >>
    IN  [ results |-> IF engineMode \in {"honours", "endless"}
                      THEN SelectSeq(raw, LAMBDA r : r.type \in Range(typesArg))
                      ELSE raw,
          nextPageCursor |-> IF idx < Len(enginePages) \/ engineMode = "endless"
                             THEN encodePageCursor(Num(idx))
                             ELSE Undefined ]

\* the callers of the model, by the token of their request options
Token1 == "token1"
Token2 == "token2"

\* the policy with every ALLOW and DENY exchanged
Opposite(policy) ==
    [k \in DOMAIN policy |->
        IF policy[k] = ALLOW THEN DENY ELSE IF policy[k] = DENY THEN ALLOW ELSE policy[k]]

\* the authorizer decides by the caller's token: `decisions` is its policy for
\* the first caller, and the second caller gets the opposite policy
PolicyOf(opts) == IF opts.token = Token2 THEN Opposite(decisions) ELSE decisions

\* permissions.authorize(requests, options): one decision per request, in order
Authorize(requests, opts) ==
    [i \in DOMAIN requests |->
        PolicyOf(opts)[<< requests[i].permission, requests[i].resourceRef >>]]

----------------------------------------------------------------------------
(* The DataLoader of one query *)

\* A request object handed to authorizer.load is a fresh object literal: oid
\* is its identity.  The loader is built without a cacheKeyFn, so its cache
\* map is keyed by the request object itself.
CacheKey(key) == key

\* what the authorizer sees of a request object
Request(key) == [permission |-> key.permission, resourceRef |-> key.resourceRef]

\* the loads of one tick that miss the cache, each cache key once: the batch
Batch(cache, keys) ==
    LET idx == SelectSeq([i \in DOMAIN keys |-> i],
                   LAMBDA i : /\ CacheKey(keys[i]) \notin DOMAIN cache
                              /\ \A j \in 1..(i - 1) : CacheKey(keys[j]) # CacheKey(keys[i]))
    IN  [n \in DOMAIN idx |-> keys[idx[n]]]

\* the cache map after the batch has been dispatched and resolved
CacheAfter(cache, batch, opts) ==
    LET reqs == [n \in DOMAIN batch |-> Request(batch[n])]
        res  == Authorize(reqs, opts)
        new  == { CacheKey(batch[n]) : n \in DOMAIN batch }
    IN  [ck \in DOMAIN cache \cup new |->
            IF ck \in DOMAIN cache THEN cache[ck]
            ELSE res[CHOOSE n \in DOMAIN batch : CacheKey(batch[n]) = ck]]

\* the calls of permissions.authorize after a tick: an empty batch is not dispatched
CallsAfter(calls, batch) ==
    IF batch = << >> THEN calls
    ELSE Append(calls, [n \in DOMAIN batch |-> Request(batch[n])])

\* the options of those calls
OptionsAfter(log, batch, opts) == IF batch = << >> THEN log ELSE Append(log, opts)

\* a batch function that reads the options of the other invocation in flight
BatchOptionsOfOther(own, other) ==
    IF other.pc \notin {"idle", "done", "failed"} THEN other.options ELSE own

\* the batch function closes over the `options` parameter of the invocation
\* that created the loader, whatever other invocation is in flight
BatchOptions(own, other) == own

----------------------------------------------------------------------------
(* AuthorizedSearchEngine *)

pageSize == 25
DefaultQueryLatencyBudgetMs == 1000

\* typeDecisions[type]?.result
TypeDecision(decs, type) == IF type \in DOMAIN decs THEN decs[type] ELSE "undefined"

\* a filter that sends a result without a resource reference to the authorizer
NeedsResourceCheckWithoutRef(decs, r) ==
    /\ TypeDecision(decs, r.type) # ALLOW
    /\ types[r.type] # NoPermission

\* filterResults: the results that go to authorizer.load, i.e. those that
\* neither pass on their type's decision nor lack a permission or a reference
NeedsResourceCheck(decs, r) ==
    /\ TypeDecision(decs, r.type) # ALLOW
    /\ types[r.type] # NoPermission
    /\ r.resourceRef # NoRef

\* positions, in a page, of the results that go to authorizer.load
CheckedIndexes(decs, results) ==
    SelectSeq([i \in DOMAIN results |-> i], LAMBDA i : NeedsResourceCheck(decs, results[i]))

\* the request objects filterResults creates for a page, in result order
ResourceKeys(decs, results, oid) ==
    LET idx == CheckedIndexes(decs, results)
    IN  [n \in DOMAIN idx |->
            [ permission |-> types[results[idx[n]].type],
              resourceRef |-> results[idx[n]].resourceRef,
              oid |-> oid + n - 1 ]]

\* a filter that drops a checked result only on a DENY
FilterWithUnlessDenied(decs, results, oid, cache) ==
    LET idx  == CheckedIndexes(decs, results)
        keys == ResourceKeys(decs, results, oid)
        kept == SelectSeq([i \in DOMAIN results |-> i],
                    LAMBDA i :
                        \/ ~NeedsResourceCheck(decs, results[i])
                        \/ \E n \in DOMAIN idx :
                              /\ idx[n] = i
                              /\ cache[CacheKey(keys[n])] # DENY)
    IN  [n \in DOMAIN kept |-> results[kept[n]]]

\* compact(await Promise.all(results.map(...))), given the loader's cache once
\* the page's loads have resolved
FilterWith(decs, results, oid, cache) ==
    LET idx  == CheckedIndexes(decs, results)
        keys == ResourceKeys(decs, results, oid)
        kept == SelectSeq([i \in DOMAIN results |-> i],
                    LAMBDA i :
                        \/ ~NeedsResourceCheck(decs, results[i])
                        \/ \E n \in DOMAIN idx :
                              /\ idx[n] = i
                              /\ cache[CacheKey(keys[n])] = ALLOW)
    IN  [n \in DOMAIN kept |-> results[kept[n]]]

\* the request objects the type authorizer creates: one per requested type
\* that has a visibility permission, in the order of requestedTypes
TypeKeys(requested, oid) ==
    LET idx == SelectSeq([i \in DOMAIN requested |-> i],
                         LAMBDA i : types[requested[i]] # NoPermission)
    IN  [n \in DOMAIN idx |->
            [ permission |-> types[requested[idx[n]]],
              resourceRef |-> NoRef,
              oid |-> oid + n - 1 ]]

\* the identity of the first of the request objects queued, if any
FirstOid(loads) == IF loads = << >> THEN 0 ELSE loads[1].oid

\* zipObject(requestedTypes, await Promise.all(...)), given the resolved cache
TypeDecisionsWith(requested, oid, cache) ==
    LET idx  == SelectSeq([i \in DOMAIN requested |-> i],
                          LAMBDA i : types[requested[i]] # NoPermission)
        keys == TypeKeys(requested, oid)
    IN  [t \in Range(requested) |->
            LET i == CHOOSE j \in DOMAIN requested :
                        requested[j] = t /\ \A k \in DOMAIN requested : requested[k] = t => k <= j
            IN  IF types[t] = NoPermission THEN ALLOW
                ELSE cache[CacheKey(keys[CHOOSE n \in DOMAIN idx : idx[n] = i])]]

\* a type filter that keeps only the types decided ALLOW
AuthorizedTypesOnlyAllowed(requested, decs) ==
    SelectSeq(requested, LAMBDA t : TypeDecision(decs, t) = ALLOW)

\* requestedTypes.filter(type => typeDecisions[type]?.result !== DENY)
AuthorizedTypes(requested, decs) ==
    SelectSeq(requested, LAMBDA t : TypeDecision(decs, t) # DENY)

\* an engine request whose spread lets the client's query override the
\* authorized types and the engine cursor
EngineRequestQueryLast(q, authorized, cursor) ==
    [ types |-> IF q.types = Undefined THEN authorized ELSE q.types,
      pageCursor |-> q.pageCursor ]

\* { ...query, types: authorizedTypes, pageCursor: nextPageCursor }: what of
\* the request the engine of the model reads
EngineRequest(q, authorized, cursor) ==
    [ types |-> authorized, pageCursor |-> cursor ]

\* a budget test with the two clock readings swapped
BudgetExhaustedSwapped(t, start, budget) == start - t > budget

\* Date.now() - queryStartTime > this.queryLatencyBudgetMs
BudgetExhausted(t, start, budget) == t - start > budget

\* a loop that stops at one page's worth of results, whatever page is requested
LoopConditionOnePage(cursor, results, target, exhausted) ==
    /\ ~Falsy(cursor)
    /\ Len(results) < pageSize
    /\ ~exhausted

\* a loop that also goes round when the accumulator has just reached the target
LoopConditionUpToTarget(cursor, results, target, exhausted) ==
    /\ ~Falsy(cursor)
    /\ ~IntGtNum(Len(results), target)
    /\ ~exhausted

\* the do-while condition
LoopCondition(cursor, results, target, exhausted) ==
    /\ ~Falsy(cursor)
    /\ IntLtNum(Len(results), target)
    /\ ~exhausted

\* a result set whose slice ends one result late
ResultSetLongSlice(results, p, target, cursor, exhausted) ==
    [ results |-> Slice(results, NumMul(p, pageSize), NumAdd(NumMul(NumAdd(p, 1), pageSize), 1)),
      previousPageCursor |->
          IF NumIsZero(p) THEN Undefined ELSE encodePageCursor(NumAdd(p, -1)),
      nextPageCursor |->
          IF ~exhausted /\ (~Falsy(cursor) \/ IntGtNum(Len(results), target))
          THEN encodePageCursor(NumAdd(p, 1))
          ELSE Undefined ]

\* a result set that offers a next page although the budget ran out
ResultSetIgnoringBudget(results, p, target, cursor, exhausted) ==
    [ results |-> Slice(results, NumMul(p, pageSize), NumMul(NumAdd(p, 1), pageSize)),
      previousPageCursor |->
          IF NumIsZero(p) THEN Undefined ELSE encodePageCursor(NumAdd(p, -1)),
      nextPageCursor |->
          IF ~Falsy(cursor) \/ IntGtNum(Len(results), target)
          THEN encodePageCursor(NumAdd(p, 1))
          ELSE Undefined ]

\* a result set whose previous cursor names the requested page itself
ResultSetPreviousIsPage(results, p, target, cursor, exhausted) ==
    [ results |-> Slice(results, NumMul(p, pageSize), NumMul(NumAdd(p, 1), pageSize)),
      previousPageCursor |->
          IF NumIsZero(p) THEN Undefined ELSE encodePageCursor(p),
      nextPageCursor |->
          IF ~exhausted /\ (~Falsy(cursor) \/ IntGtNum(Len(results), target))
          THEN encodePageCursor(NumAdd(p, 1))
          ELSE Undefined ]

\* a result set that offers a next page only when the engine has one
ResultSetCursorOnly(results, p, target, cursor, exhausted) ==
    [ results |-> Slice(results, NumMul(p, pageSize), NumMul(NumAdd(p, 1), pageSize)),
      previousPageCursor |->
          IF NumIsZero(p) THEN Undefined ELSE encodePageCursor(NumAdd(p, -1)),
      nextPageCursor |->
          IF ~exhausted /\ ~Falsy(cursor)
          THEN encodePageCursor(NumAdd(p, 1))
          ELSE Undefined ]

\* a result set that offers a next page as soon as the requested page is full
ResultSetAtLeastTarget(results, p, target, cursor, exhausted) ==
    [ results |-> Slice(results, NumMul(p, pageSize), NumMul(NumAdd(p, 1), pageSize)),
      previousPageCursor |->
          IF NumIsZero(p) THEN Undefined ELSE encodePageCursor(NumAdd(p, -1)),
      nextPageCursor |->
          IF ~exhausted /\ (~Falsy(cursor) \/ ~IntLtNum(Len(results), target))
          THEN encodePageCursor(NumAdd(p, 1))
          ELSE Undefined ]

\* the returned SearchResultSet
ResultSet(results, p, target, cursor, exhausted) ==
    [ results |-> Slice(results, NumMul(p, pageSize), NumMul(NumAdd(p, 1), pageSize)),
      previousPageCursor |->
          IF NumIsZero(p) THEN Undefined ELSE encodePageCursor(NumAdd(p, -1)),
      nextPageCursor |->
          IF ~exhausted /\ (~Falsy(cursor) \/ IntGtNum(Len(results), target))
          THEN encodePageCursor(NumAdd(p, 1))
          ELSE Undefined ]

----------------------------------------------------------------------------
(* readMicrosoftGraphConfig: the provider entries of the configuration are *)
(* read in order.  A string of the configuration is a sequence of          *)
(* characters, an optional key that is not set is Undefined.               *)

\* largest number of provider entries of a configuration
MaxProviders == 3

DefaultAuthority ==
    << "h", "t", "t", "p", "s", ":", "/", "/", "l", "o", "g", "i", "n", ".",
       "m", "i", "c", "r", "o", "s", "o", "f", "t", "o", "n", "l", "i", "n", "e", ".",
       "c", "o", "m" >>

\* trimEnd(string, '/')
RECURSIVE TrimEndSlash(_)
TrimEndSlash(str) ==
    IF str # << >> /\ str[Len(str)] = "/"
    THEN TrimEndSlash(SubSeq(str, 1, Len(str) - 1))
    ELSE str

\* userFilter && userGroupMemberFilter
BothUserFilters(providerConfig) ==
    ~Falsy(providerConfig.userFilter) /\ ~Falsy(providerConfig.userGroupMemberFilter)

\* the object pushed for one provider entry
Provider(providerConfig) ==
    [ target |-> TrimEndSlash(providerConfig.target),
      authority |-> IF Falsy(providerConfig.authority)
                    THEN DefaultAuthority
                    ELSE TrimEndSlash(providerConfig.authority),
      tenantId |-> providerConfig.tenantId,
      clientId |-> providerConfig.clientId,
      clientSecret |-> providerConfig.clientSecret,
      userFilter |-> providerConfig.userFilter,
      userGroupMemberFilter |-> providerConfig.userGroupMemberFilter,
      groupFilter |-> providerConfig.groupFilter ]

\* a loop that leaves out an entry with both filters and goes on
RECURSIVE ReadProvidersSkipping(_, _)
ReadProvidersSkipping(providerConfigs, providers) ==
    IF providerConfigs = << >> THEN [thrown |-> FALSE, providers |-> providers]
    ELSE IF BothUserFilters(Head(providerConfigs))
         THEN ReadProvidersSkipping(Tail(providerConfigs), providers)
         ELSE ReadProvidersSkipping(Tail(providerConfigs),
                                    Append(providers, Provider(Head(providerConfigs))))

\* the for loop over the entries still to read, `providers` being the array
\* built so far: a throw leaves the function without it
RECURSIVE ReadProviders(_, _)
ReadProviders(providerConfigs, providers) ==
    IF providerConfigs = << >> THEN [thrown |-> FALSE, providers |-> providers]
    ELSE IF BothUserFilters(Head(providerConfigs))
         THEN [thrown |-> TRUE, providers |-> << >>]
         ELSE ReadProviders(Tail(providerConfigs),
                            Append(providers, Provider(Head(providerConfigs))))

\* config.getOptionalConfigArray('providers') ?? [], the optional array given
\* as a sequence of at most one array
ProviderConfigs(config) == IF config = << >> THEN << >> ELSE config[1]

readMicrosoftGraphConfig(config) == ReadProviders(ProviderConfigs(config), << >>)

\* the provider entries of the model: the tenant tells them apart; one has a
\* target that ends in slashes and no authority, the other an authority that
\* ends in a slash; each user filter is set or not
ProviderEntries ==
    { [ target |-> IF t = "tenant1" THEN << "g", "/", "/" >> ELSE << "g", "/", "v" >>,
        authority |-> IF t = "tenant1" THEN Undefined ELSE << "a", "/" >>,
        tenantId |-> t,
        clientId |-> "id",
        clientSecret |-> "secret",
        userFilter |-> uf,
        userGroupMemberFilter |-> ugmf,
        groupFilter |-> IF t = "tenant1" THEN << "s" >> ELSE Undefined ] :
      t \in {"tenant1", "tenant2"},
      uf \in {Undefined, << "u" >>},
      ugmf \in {Undefined, << "m" >>} }

RECURSIVE SeqsUpTo(_, _)
SeqsUpTo(S, n) ==
    IF n = 0 THEN { << >> }
    ELSE LET shorter == SeqsUpTo(S, n - 1)
         IN  shorter \cup { Append(s, x) : s \in shorter, x \in S }

InitConfigIdle == cfgPc = "off" /\ cfgProviders = << >> /\ cfgResult = [thrown |-> FALSE, providers |-> << >>]

----------------------------------------------------------------------------
(* Initial states *)

NoResponse == [results |-> << >>, previousPageCursor |-> Undefined, nextPageCursor |-> Undefined]
NoPage == [results |-> << >>, nextPageCursor |-> Undefined]
\* no await of the invocation has been rejected
NoFailure == [at |-> "none", engineCalls |-> 0, authCalls |-> 0]

\* config.getOptionalNumber('search.permissions.queryLatencyBudgetMs') ?? 1000,
\* the optional number given as a sequence of at most one number
ConfiguredBudget(cfg) == IF cfg = << >> THEN DefaultQueryLatencyBudgetMs ELSE cfg[1]

\* the configured budgets of the model: none, and 0 ms
BudgetConfigs == { << >>, << 0 >> }

\* number of result kinds an engine page of the policy family holds
SmallPageLen == 12
\* number of pages of the largest engine of the paging family
MaxEnginePages == 4

\* the engine that exercises every authorizer policy: two pages that hold
\* every kind of document between them
PolicyEngines == { MkEngine(<< SmallPageLen \div 2, SmallPageLen - SmallPageLen \div 2 >>, 0) }

\* engines that exercise the pagination: uniform page lengths around the page
\* size, small pages, and an engine whose last page holds one document, of a
\* type with a permission and with the reference r2, after two pages that
\* each hold a page's worth of documents other than those
PageLens == { 0, 10, pageSize - 1, pageSize, pageSize + 1 }
PagingEngines ==
    { MkEngine([i \in 1..n |-> len], 0) : n \in 1..MaxEnginePages, len \in PageLens }
    \cup { MkEngine(<< 0, pageSize, 0, 1 >>, 0),
           MkEngine([i \in 1..(2 * MaxEnginePages) |-> 10], 0),
           MkEngine(<< 33, 33, 1 >>, 7) }

\* the policies of the paging family: everything allowed; every type
\* conditional and one reference denied; one permission denied; and every type
\* conditional with a per-resource decision that is neither ALLOW nor DENY
AllowAll == [k \in Permissions \X (ResourceRefs \cup {NoRef}) |-> ALLOW]
PagingPolicies ==
    { AllowAll,
      [k \in Permissions \X (ResourceRefs \cup {NoRef}) |->
          IF k[2] = NoRef THEN CONDITIONAL ELSE IF k[2] = "r2" THEN DENY ELSE ALLOW],
      [k \in Permissions \X (ResourceRefs \cup {NoRef}) |->
          IF k = << "c2", NoRef >> THEN DENY ELSE ALLOW],
      [k \in Permissions \X (ResourceRefs \cup {NoRef}) |->
          IF k[2] = "r1" THEN ALLOW ELSE CONDITIONAL] }

\* the locals of an invocation that has not been called yet
IdleContext(id) ==
    [ current |-> id, pc |-> "idle", options |-> [token |-> "none"],
      query |-> [types |-> Undefined, pageCursor |-> Undefined],
      queryStartTime |-> 0, loopStartTime |-> 0, loaderCache |-> << >>,
      pendingTypeLoads |-> << >>, requestedTypes |-> << >>, typeDecisions |-> << >>,
      authorizedTypes |-> << >>, page |-> Num(0), targetResults |-> Num(0),
      filteredResults |-> << >>, nextPageCursor |-> Undefined,
      latencyBudgetExhausted |-> FALSE, nextPage |-> NoPage, response |-> NoResponse,
      failure |-> NoFailure, authCalls |-> << >>, authOptions |-> << >>,
      engineCalls |-> << >>, fetched |-> << >>, resourceChecked |-> {},
      elapsedLog |-> << >> ]

InitQuery ==
    /\ current = 1
    /\ suspended = IdleContext(2)
    /\ options = [token |-> "none"]
    /\ authOptions = << >>
    /\ pc = "idle"
    /\ now = 0
    /\ query = [types |-> Undefined, pageCursor |-> Undefined]
    /\ queryStartTime = 0
    /\ loopStartTime = 0
    /\ loaderCache = << >>
    /\ nextOid = 1
    /\ pendingTypeLoads = << >>
    /\ requestedTypes = << >>
    /\ typeDecisions = << >>
    /\ authorizedTypes = << >>
    /\ page = Num(0)
    /\ targetResults = Num(0)
    /\ filteredResults = << >>
    /\ nextPageCursor = Undefined
    /\ latencyBudgetExhausted = FALSE
    /\ nextPage = NoPage
    /\ response = NoResponse
    /\ failure = NoFailure
    /\ authCalls = << >>
    /\ engineCalls = << >>
    /\ fetched = << >>
    /\ resourceChecked = {}
    /\ elapsedLog = << >>

InitCodecIdle == cpc = "off" /\ cpage = Num(0) /\ ctoken = Undefined /\ cresult = Num(0)

Init ==
    /\ types = Registry
    /\ \/ decisions \in Policies /\ enginePages \in PolicyEngines
       \/ decisions \in PagingPolicies /\ enginePages \in PagingEngines
    /\ engineMode \in {"honours", "ignores"}
    /\ \E cfg \in BudgetConfigs : queryLatencyBudgetMs = ConfiguredBudget(cfg)
    /\ InitQuery
    /\ InitCodecIdle
    /\ InitConfigIdle

----------------------------------------------------------------------------
(* The invocation of query(), one action per stretch between two awaits *)

\* what the clock may advance by while the invocation awaits a collaborator:
\* nothing measurable, or more than any budget of the model
Delays == { 0, DefaultQueryLatencyBudgetMs + 1 }
MaxClock == DefaultQueryLatencyBudgetMs + 1

\* the page cursors a client sends: none, the encodings of the pages
\* 1..MaxCursorPage, the encoding of -1, and a token that is no encoding of a
\* number
PageCursors ==
    { Undefined, encodePageCursor(Num(-1)), << "a", "b", "c" >> }
    \cup { encodePageCursor(Num(p)) : p \in 1..MaxCursorPage }

\* the `types` a client sends: none, or a list that leaves types out
QueryTypes == { Undefined, << "t2", "t4" >> }

\* lines 195-212: the start time is read, the loader is created, and one
\* load per requested type with a permission is queued
QueryStart(queryTypes, pageCursor, opts) ==
    /\ pc = "idle"
    /\ pc' = "authorizeTypes"
    /\ options' = opts
    /\ query' = [types |-> queryTypes, pageCursor |-> pageCursor]
    /\ queryStartTime' = now
    /\ loaderCache' = << >>
    /\ requestedTypes' = IF queryTypes = Undefined THEN TypeNames ELSE queryTypes
    /\ pendingTypeLoads' = TypeKeys(requestedTypes', nextOid)
    /\ nextOid' = nextOid + Len(pendingTypeLoads')
    /\ UNCHANGED << codecVars, configVars >>
    /\ UNCHANGED << current, suspended, authOptions >>
    /\ UNCHANGED << loopStartTime, failure >>
    /\ UNCHANGED << types, decisions, enginePages, engineMode, queryLatencyBudgetMs, now,
                    typeDecisions, authorizedTypes, page, targetResults, filteredResults,
                    nextPageCursor, latencyBudgetExhausted, nextPage, response,
                    authCalls, engineCalls, fetched, resourceChecked, elapsedLog >>

\* lines 202-224: the queued loads are dispatched as one batch, the type
\* decisions resolve, and the loop's variables are set up
AuthorizeTypes(delay) ==
    /\ pc = "authorizeTypes"
    /\ now + delay <= MaxClock
    /\ now' = now + delay
    /\ LET batch == Batch(loaderCache, pendingTypeLoads)
           opts  == BatchOptions(options, suspended)
           cache == CacheAfter(loaderCache, batch, opts)
           decs  == TypeDecisionsWith(requestedTypes, FirstOid(pendingTypeLoads), cache)
       IN  /\ authCalls' = CallsAfter(authCalls, batch)
           /\ authOptions' = OptionsAfter(authOptions, batch, opts)
           /\ loaderCache' = cache
           /\ typeDecisions' = decs
           /\ authorizedTypes' = AuthorizedTypes(requestedTypes, decs)
    /\ pendingTypeLoads' = << >>
    /\ page' = decodePageCursor(query.pageCursor)
    /\ targetResults' = NumMul(NumAdd(page', 1), pageSize)
    /\ filteredResults' = << >>
    /\ nextPageCursor' = Undefined
    /\ loopStartTime' = now'
    /\ pc' = "fetch"
    /\ UNCHANGED << codecVars, configVars >>
    /\ UNCHANGED << current, suspended, options >>
    /\ UNCHANGED failure
    /\ UNCHANGED << types, decisions, enginePages, engineMode, queryLatencyBudgetMs,
                    query, queryStartTime, nextOid, requestedTypes,
                    latencyBudgetExhausted, nextPage, response,
                    engineCalls, fetched, resourceChecked, elapsedLog >>

\* lines 227-230: the next page of the underlying engine is fetched
Fetch(delay) ==
    /\ pc = "fetch"
    /\ now + delay <= MaxClock
    /\ now' = now + delay
    /\ LET request == EngineRequest(query, authorizedTypes, nextPageCursor)
       IN  /\ nextPage' = EngineQuery(request.types, request.pageCursor)
           /\ engineCalls' = Append(engineCalls, request)
    /\ fetched' = fetched \o nextPage'.results
    /\ pc' = "filter"
    /\ UNCHANGED << codecVars, configVars >>
    /\ UNCHANGED << current, suspended, options, authOptions >>
    /\ UNCHANGED << loopStartTime, failure >>
    /\ UNCHANGED << types, decisions, enginePages, engineMode, queryLatencyBudgetMs,
                    query, queryStartTime, loaderCache, nextOid, pendingTypeLoads,
                    requestedTypes, typeDecisions, authorizedTypes, page, targetResults,
                    filteredResults, nextPageCursor, latencyBudgetExhausted, response,
                    authCalls, resourceChecked, elapsedLog >>

\* lines 232-234 and 260-287: the page's loads are dispatched as one batch and
\* the results that pass are appended to the accumulator
Filter(delay) ==
    /\ pc = "filter"
    /\ now + delay <= MaxClock
    /\ now' = now + delay
    /\ LET keys  == ResourceKeys(typeDecisions, nextPage.results, nextOid)
           batch == Batch(loaderCache, keys)
           opts  == BatchOptions(options, suspended)
           cache == CacheAfter(loaderCache, batch, opts)
           idx   == CheckedIndexes(typeDecisions, nextPage.results)
       IN  /\ authCalls' = CallsAfter(authCalls, batch)
           /\ authOptions' = OptionsAfter(authOptions, batch, opts)
           /\ loaderCache' = cache
           /\ nextOid' = nextOid + Len(keys)
           /\ resourceChecked' =
                  resourceChecked \cup { nextPage.results[idx[n]].id : n \in DOMAIN idx }
           /\ filteredResults' =
                  filteredResults \o FilterWith(typeDecisions, nextPage.results, nextOid, cache)
    /\ pc' = "checkStop"
    /\ UNCHANGED << codecVars, configVars >>
    /\ UNCHANGED << current, suspended, options >>
    /\ UNCHANGED << loopStartTime, failure >>
    /\ UNCHANGED << types, decisions, enginePages, engineMode, queryLatencyBudgetMs,
                    query, queryStartTime, pendingTypeLoads, requestedTypes,
                    typeDecisions, authorizedTypes, page, targetResults, nextPageCursor,
                    latencyBudgetExhausted, nextPage, response, engineCalls, fetched,
                    elapsedLog >>

\* a query that catches a rejected await and carries on with the loop
RejectedButCaught(at) == IF at = "authorizeTypes" THEN "fetch" ELSE "checkStop"

\* query() has no try/catch: a rejected await (line 204, 227 or 233) rejects
\* the promise query() returned, whichever await it was
Rejected(at) == "failed"

\* the record of a rejected await: where it happened and how many calls of
\* each collaborator had been made by then
Failure(at, engine, auth) == [at |-> at, engineCalls |-> Len(engine), authCalls |-> Len(auth)]

\* lines 202-213: permissions.authorize rejects the batch of type loads, and
\* with it every load and the Promise.all
AuthorizeTypesFails(delay) ==
    /\ pc = "authorizeTypes"
    /\ now + delay <= MaxClock
    /\ now' = now + delay
    /\ LET batch == Batch(loaderCache, pendingTypeLoads)
       IN  /\ batch # << >>
           /\ authCalls' = CallsAfter(authCalls, batch)
           /\ authOptions' =
                  OptionsAfter(authOptions, batch, BatchOptions(options, suspended))
    /\ pendingTypeLoads' = << >>
    /\ pc' = Rejected("authorizeTypes")
    /\ failure' = Failure("authorizeTypes", engineCalls, authCalls')
    /\ UNCHANGED << codecVars, configVars >>
    /\ UNCHANGED << current, suspended, options >>
    /\ UNCHANGED << types, decisions, enginePages, engineMode, queryLatencyBudgetMs,
                    query, queryStartTime, loopStartTime, loaderCache, nextOid,
                    requestedTypes, typeDecisions, authorizedTypes, page, targetResults,
                    filteredResults, nextPageCursor, latencyBudgetExhausted, nextPage,
                    response, engineCalls, fetched, resourceChecked, elapsedLog >>

\* lines 227-230: searchEngine.query rejects
FetchFails(delay) ==
    /\ pc = "fetch"
    /\ now + delay <= MaxClock
    /\ now' = now + delay
    /\ engineCalls' = Append(engineCalls,
                             EngineRequest(query, authorizedTypes, nextPageCursor))
    /\ pc' = Rejected("fetch")
    /\ failure' = Failure("fetch", engineCalls', authCalls)
    /\ UNCHANGED << codecVars, configVars >>
    /\ UNCHANGED << current, suspended, options, authOptions >>
    /\ UNCHANGED << types, decisions, enginePages, engineMode, queryLatencyBudgetMs,
                    query, queryStartTime, loopStartTime, loaderCache, nextOid,
                    pendingTypeLoads, requestedTypes, typeDecisions, authorizedTypes,
                    page, targetResults, filteredResults, nextPageCursor,
                    latencyBudgetExhausted, nextPage, response, authCalls, fetched,
                    resourceChecked, elapsedLog >>

\* lines 232-234 and 260-287: permissions.authorize rejects the batch of the
\* page's loads; the loader forgets the keys of a rejected batch, every load
\* of the page rejects and so does the Promise.all of filterResults
FilterFails(delay) ==
    /\ pc = "filter"
    /\ now + delay <= MaxClock
    /\ now' = now + delay
    /\ LET keys  == ResourceKeys(typeDecisions, nextPage.results, nextOid)
           batch == Batch(loaderCache, keys)
           idx   == CheckedIndexes(typeDecisions, nextPage.results)
       IN  /\ batch # << >>
           /\ authCalls' = CallsAfter(authCalls, batch)
           /\ authOptions' =
                  OptionsAfter(authOptions, batch, BatchOptions(options, suspended))
           /\ nextOid' = nextOid + Len(keys)
           /\ resourceChecked' =
                  resourceChecked \cup { nextPage.results[idx[n]].id : n \in DOMAIN idx }
    /\ pc' = Rejected("filter")
    /\ failure' = Failure("filter", engineCalls, authCalls')
    /\ UNCHANGED << codecVars, configVars >>
    /\ UNCHANGED << current, suspended, options >>
    /\ UNCHANGED << types, decisions, enginePages, engineMode, queryLatencyBudgetMs,
                    query, queryStartTime, loopStartTime, loaderCache, pendingTypeLoads,
                    requestedTypes, typeDecisions, authorizedTypes, page, targetResults,
                    filteredResults, nextPageCursor, latencyBudgetExhausted, nextPage,
                    response, engineCalls, fetched, elapsedLog >>

\* lines 236-238: the end of a loop iteration
EndOfIteration ==
    /\ pc = "checkStop"
    /\ nextPageCursor' = nextPage.nextPageCursor
    /\ latencyBudgetExhausted' = BudgetExhausted(now, queryStartTime, queryLatencyBudgetMs)
    /\ elapsedLog' = Append(elapsedLog, now - queryStartTime)
    /\ UNCHANGED << codecVars, configVars >>
    /\ UNCHANGED << current, suspended, options, authOptions >>
    /\ UNCHANGED << loopStartTime, failure >>
    /\ UNCHANGED << types, decisions, enginePages, engineMode, queryLatencyBudgetMs,
                    now, query, queryStartTime, loaderCache, nextOid, pendingTypeLoads,
                    requestedTypes, typeDecisions, authorizedTypes, page, targetResults,
                    filteredResults, nextPage, authCalls, engineCalls, fetched,
                    resourceChecked >>

\* lines 239-243: the loop goes round
Continue ==
    /\ EndOfIteration
    /\ LoopCondition(nextPageCursor', filteredResults, targetResults, latencyBudgetExhausted')
    /\ pc' = "fetch"
    /\ UNCHANGED response

\* lines 239-257: the loop stops and the result set is returned
Return ==
    /\ EndOfIteration
    /\ ~LoopCondition(nextPageCursor', filteredResults, targetResults, latencyBudgetExhausted')
    /\ pc' = "done"
    /\ response' = ResultSet(filteredResults, page, targetResults,
                             nextPageCursor', latencyBudgetExhausted')

Next ==
    \/ \E qt \in QueryTypes, c \in PageCursors : QueryStart(qt, c, [token |-> Token1])
    \/ \E d \in Delays : AuthorizeTypes(d)
    \/ \E d \in Delays : Fetch(d)
    \/ \E d \in Delays : Filter(d)
    \/ Continue
    \/ Return
    \/ \E d \in Delays : AuthorizeTypesFails(d)
    \/ \E d \in Delays : FetchFails(d)
    \/ \E d \in Delays : FilterFails(d)

Spec == Init /\ [][Next]_vars

----------------------------------------------------------------------------
(* The invocation against an engine that never runs out of pages, with a   *)
(* clock that advances on every fetch: every await of the invocation       *)
(* completes, which is the fairness of the specification                   *)

\* the budget configured besides 0 ms, and the longest a call takes
LiveBudget == 3
MaxLiveDelay == 2

\* what the clock advances by during a fetch; during an authorizer call it
\* advances by 0 or 1
LiveDelays == 1..MaxLiveDelay

\* the clock of the model stops here: a loop that respects the budget ends
\* earlier
LiveMaxClock == LiveBudget + MaxLiveDelay + 2

WithinHorizon(delay) == now + delay <= LiveMaxClock

\* an endless engine whose only document is of a type with a permission and
\* has the reference r2, and an endless engine with documents of every kind
LiveEngines ==
    { MkEngine(<< 1 >>, 1),
      MkEngine(<< SmallPageLen \div 2, SmallPageLen - SmallPageLen \div 2 >>, 0) }

InitLive ==
    /\ types = Registry
    /\ decisions \in PagingPolicies
    /\ enginePages \in LiveEngines
    /\ engineMode = "endless"
    /\ \E cfg \in { << 0 >>, << LiveBudget >> } : queryLatencyBudgetMs = ConfiguredBudget(cfg)
    /\ InitQuery
    /\ InitCodecIdle
    /\ InitConfigIdle

LiveAuthorizeTypes(delay) == WithinHorizon(delay) /\ AuthorizeTypes(delay)
LiveAuthorizeTypesFails(delay) == WithinHorizon(delay) /\ AuthorizeTypesFails(delay)
LiveFetch(delay) == WithinHorizon(delay) /\ Fetch(delay)
LiveFetchFails(delay) == WithinHorizon(delay) /\ FetchFails(delay)
LiveFilter(delay) == WithinHorizon(delay) /\ Filter(delay)
LiveFilterFails(delay) == WithinHorizon(delay) /\ FilterFails(delay)

NextLive ==
    \/ \E c \in { Undefined, encodePageCursor(Num(1)) } :
          QueryStart(Undefined, c, [token |-> Token1])
    \/ \E d \in {0, 1} : LiveAuthorizeTypes(d)
    \/ \E d \in LiveDelays : LiveFetch(d)
    \/ \E d \in {0, 1} : LiveFilter(d)
    \/ Continue
    \/ Return
    \/ \E d \in {0, 1} : LiveAuthorizeTypesFails(d)
    \/ \E d \in LiveDelays : LiveFetchFails(d)
    \/ \E d \in {0, 1} : LiveFilterFails(d)

SpecLive == InitLive /\ [][NextLive]_vars /\ WF_vars(NextLive)

----------------------------------------------------------------------------
(* Two invocations of query() on one AuthorizedSearchEngine.  JavaScript    *)
(* runs one of them at a time and may go over to the other at every await:  *)
(* the variables of the invocation hold the locals of the one that runs,    *)
(* `suspended` those of the one that waits                                  *)

\* the locals of the running invocation, and what the model records of it
Context ==
    [ current |-> current, pc |-> pc, options |-> options, query |-> query,
      queryStartTime |-> queryStartTime, loopStartTime |-> loopStartTime,
      loaderCache |-> loaderCache, pendingTypeLoads |-> pendingTypeLoads,
      requestedTypes |-> requestedTypes, typeDecisions |-> typeDecisions,
      authorizedTypes |-> authorizedTypes, page |-> page,
      targetResults |-> targetResults, filteredResults |-> filteredResults,
      nextPageCursor |-> nextPageCursor,
      latencyBudgetExhausted |-> latencyBudgetExhausted, nextPage |-> nextPage,
      response |-> response, failure |-> failure, authCalls |-> authCalls,
      authOptions |-> authOptions, engineCalls |-> engineCalls, fetched |-> fetched,
      resourceChecked |-> resourceChecked, elapsedLog |-> elapsedLog ]

\* the running invocation is parked at its await and the other one resumes
\* with its own locals (or is yet to be called)
Switch ==
    /\ suspended.pc \notin {"done", "failed"}
    /\ suspended' = Context
    /\ current' = suspended.current
    /\ pc' = suspended.pc
    /\ options' = suspended.options
    /\ query' = suspended.query
    /\ queryStartTime' = suspended.queryStartTime
    /\ loopStartTime' = suspended.loopStartTime
    /\ loaderCache' = suspended.loaderCache
    /\ pendingTypeLoads' = suspended.pendingTypeLoads
    /\ requestedTypes' = suspended.requestedTypes
    /\ typeDecisions' = suspended.typeDecisions
    /\ authorizedTypes' = suspended.authorizedTypes
    /\ page' = suspended.page
    /\ targetResults' = suspended.targetResults
    /\ filteredResults' = suspended.filteredResults
    /\ nextPageCursor' = suspended.nextPageCursor
    /\ latencyBudgetExhausted' = suspended.latencyBudgetExhausted
    /\ nextPage' = suspended.nextPage
    /\ response' = suspended.response
    /\ failure' = suspended.failure
    /\ authCalls' = suspended.authCalls
    /\ authOptions' = suspended.authOptions
    /\ engineCalls' = suspended.engineCalls
    /\ fetched' = suspended.fetched
    /\ resourceChecked' = suspended.resourceChecked
    /\ elapsedLog' = suspended.elapsedLog
    /\ UNCHANGED << types, decisions, enginePages, engineMode, queryLatencyBudgetMs,
                    now, nextOid >>
    /\ UNCHANGED << codecVars, configVars >>

\* the policies of the two-invocation specification: every type conditional
\* and one reference denied, and one permission denied
ConcurrentPolicies ==
    { [k \in Permissions \X (ResourceRefs \cup {NoRef}) |->
          IF k[2] = NoRef THEN CONDITIONAL ELSE IF k[2] = "r2" THEN DENY ELSE ALLOW],
      [k \in Permissions \X (ResourceRefs \cup {NoRef}) |->
          IF k = << "c2", NoRef >> THEN DENY ELSE ALLOW] }

InitConcurrent ==
    /\ types = Registry
    /\ decisions \in ConcurrentPolicies
    /\ enginePages \in PolicyEngines
    /\ engineMode = "honours"
    /\ queryLatencyBudgetMs = ConfiguredBudget(<< >>)
    /\ InitQuery
    /\ InitCodecIdle
    /\ InitConfigIdle

NextConcurrent ==
    \/ \E qt \in QueryTypes, token \in {Token1, Token2} :
          QueryStart(qt, Undefined, [token |-> token])
    \/ AuthorizeTypes(0)
    \/ Fetch(0)
    \/ Filter(0)
    \/ Continue
    \/ Return
    \/ AuthorizeTypesFails(0)
    \/ FetchFails(0)
    \/ FilterFails(0)
    \/ Switch

SpecConcurrent == InitConcurrent /\ [][NextConcurrent]_vars

----------------------------------------------------------------------------
(* The cursor codec on its own: a page is encoded and the token decoded, or *)
(* an absent token is decoded                                              *)

Encode ==
    /\ cpc = "page"
    /\ ctoken' = encodePageCursor(cpage)
    /\ cpc' = "encoded"
    /\ UNCHANGED << cpage, cresult >>
    /\ UNCHANGED << queryVars, configVars >>

Decode ==
    /\ cpc = "encoded"
    /\ cresult' = decodePageCursor(ctoken)
    /\ cpc' = "decoded"
    /\ UNCHANGED << cpage, ctoken >>
    /\ UNCHANGED << queryVars, configVars >>

DecodeAbsent(token) ==
    /\ cpc = "page"
    /\ Falsy(token)
    /\ ctoken' = token
    /\ cresult' = decodePageCursor(token)
    /\ cpc' = "decodedAbsent"
    /\ UNCHANGED cpage
    /\ UNCHANGED << queryVars, configVars >>

InitCodec ==
    /\ types = Registry
    /\ decisions = AllowAll
    /\ enginePages = MkEngine(<< 0 >>, 0)
    /\ engineMode = "honours"
    /\ queryLatencyBudgetMs = ConfiguredBudget(<< >>)
    /\ InitQuery
    /\ cpc = "page"
    /\ cpage \in { Num(p) : p \in 0..MaxCodecPage }
    /\ ctoken = Undefined
    /\ cresult = Num(0)
    /\ InitConfigIdle

NextCodec ==
    \/ Encode
    \/ Decode
    \/ \E token \in { Undefined, << >> } : DecodeAbsent(token)

SpecCodec == InitCodec /\ [][NextCodec]_vars

----------------------------------------------------------------------------
(* readMicrosoftGraphConfig on its own: one call on a configuration *)

ReadConfig ==
    /\ cfgPc = "ready"
    /\ cfgResult' = readMicrosoftGraphConfig(cfgProviders)
    /\ cfgPc' = IF cfgResult'.thrown THEN "thrown" ELSE "returned"
    /\ UNCHANGED cfgProviders
    /\ UNCHANGED << queryVars, codecVars >>

InitConfig ==
    /\ types = Registry
    /\ decisions = AllowAll
    /\ enginePages = MkEngine(<< 0 >>, 0)
    /\ engineMode = "honours"
    /\ queryLatencyBudgetMs = ConfiguredBudget(<< >>)
    /\ InitQuery
    /\ InitCodecIdle
    /\ cfgPc = "ready"
    /\ cfgProviders \in { << >> } \cup { << a >> : a \in SeqsUpTo(ProviderEntries, MaxProviders) }
    /\ cfgResult = [thrown |-> FALSE, providers |-> << >>]

NextConfig == ReadConfig

SpecConfig == InitConfig /\ [][NextConfig]_vars

----------------------------------------------------------------------------
(* Properties *)

Done == pc = "done"

\* the results whose filtering has completed
Filtered ==
    IF pc = "filter" \/ failure.at = "filter"
    THEN SubSeq(fetched, 1, Len(fetched) - Len(nextPage.results))
    ELSE fetched

\* every request sent to the authorizer during the query, over all its calls
AllRequests == Flatten(authCalls)

\* the page the query asks for
RequestedPage == decodePageCursor(query.pageCursor)

\* whether the budget had run out at the last reading of the clock
Exhausted == elapsedLog # << >> /\ elapsedLog[Len(elapsedLog)] > queryLatencyBudgetMs

\* the conditions under which a result is to pass without a resource check
PassesUnchecked(r) ==
    \/ TypeDecision(typeDecisions, r.type) = ALLOW
    \/ types[r.type] = NoPermission
    \/ r.resourceRef = NoRef

\* the authorizer's decision on the resource of a result
ResourceDecision(r) == decisions[<< types[r.type], r.resourceRef >>]

\* A: every result the engine serves this query, over all its pages and in
\* its order, that passes the result filter
AllAuthorized ==
    LET served == Flatten([i \in DOMAIN enginePages |->
                     EngineQuery(authorizedTypes,
                         IF i = 1 THEN Undefined ELSE encodePageCursor(Num(i - 1))).results])
    IN  SelectSeq(served, LAMBDA r : PassesUnchecked(r) \/ ResourceDecision(r) = ALLOW)

\* C1: a result whose type-level decision is DENY never appears in the
\* results returned by query.
C1_DeniedTypeNeverReturned ==
    Done => \A r \in Range(response.results) :
                TypeDecision(typeDecisions, r.type) # DENY

\* C2: for a result of a CONDITIONAL type that has a permission and a resource
\* reference, a (permission, resourceRef) request is issued, the result passes
\* the filter iff the decision on it is ALLOW, and it is never returned
\* otherwise.
C2_ConditionalDecidedPerResource ==
    \A r \in Range(Filtered) :
        ( /\ TypeDecision(typeDecisions, r.type) = CONDITIONAL
          /\ types[r.type] # NoPermission
          /\ r.resourceRef # NoRef )
        => /\ r.id \in resourceChecked
           /\ [permission |-> types[r.type], resourceRef |-> r.resourceRef]
                  \in Range(AllRequests)
           /\ (r \in Range(filteredResults)) <=> (ResourceDecision(r) = ALLOW)
           /\ (r \in Range(response.results)) => (ResourceDecision(r) = ALLOW)

C2_Witness ==
    /\ Done
    /\ \E r \in Range(fetched) :
          /\ TypeDecision(typeDecisions, r.type) = CONDITIONAL
          /\ r.id \in resourceChecked
          /\ ResourceDecision(r) = ALLOW
          /\ r \in Range(response.results)
    /\ \E r \in Range(fetched) :
          /\ TypeDecision(typeDecisions, r.type) = CONDITIONAL
          /\ r.id \in resourceChecked
          /\ ResourceDecision(r) = CONDITIONAL
          /\ r \notin Range(filteredResults)

\* C3: a result passes the filter unchanged, with no per-resource request,
\* when its type decision is ALLOW or its type has no permission or it has no
\* resource reference; per-resource requests are issued only for the others.
C3_PassWithoutResourceCheck ==
    /\ \A r \in Range(Filtered) :
          PassesUnchecked(r) <=> r.id \notin resourceChecked
    /\ \A r \in Range(Filtered) :
          PassesUnchecked(r) => r \in Range(filteredResults)
    /\ \A q \in Range(AllRequests) :
          q.resourceRef # NoRef =>
              \E r \in Range(fetched) :
                  /\ r.id \in resourceChecked
                  /\ types[r.type] = q.permission
                  /\ r.resourceRef = q.resourceRef

C3_Witness ==
    /\ Done
    /\ \E r \in Range(response.results) :
          /\ TypeDecision(typeDecisions, r.type) = CONDITIONAL
          /\ r.resourceRef = NoRef
    /\ \E r \in Range(response.results) :
          /\ TypeDecision(typeDecisions, r.type) = ALLOW
          /\ types[r.type] # NoPermission
          /\ r.resourceRef # NoRef
          /\ r.id \notin resourceChecked
    /\ \E r \in Range(fetched) :
          /\ r.id \in resourceChecked
          /\ r \notin Range(filteredResults)

\* C4: the number of results returned by query never exceeds the page size.
C4_AtMostPageSize == Len(response.results) <= pageSize

C4_Witness ==
    /\ Done
    /\ Len(response.results) = pageSize
    /\ Len(filteredResults) > Len(response.results)

\* C5: query returns a nextPageCursor iff the budget was not exhausted and
\* the last engine response carried a next cursor or the accumulator holds
\* more than (page+1)*pageSize results; when present it is encode(page+1).
C5_NextCursor ==
    Done =>
        /\ (response.nextPageCursor # Undefined)
              <=> /\ ~Exhausted
                  /\ \/ nextPage.nextPageCursor # Undefined
                     \/ IntGtNum(Len(filteredResults),
                                 NumMul(NumAdd(RequestedPage, 1), pageSize))
        /\ response.nextPageCursor # Undefined
              => response.nextPageCursor = encodePageCursor(NumAdd(RequestedPage, 1))

C5_Witness ==
    /\ Done
    /\ Exhausted
    /\ nextPage.nextPageCursor # Undefined
    /\ Len(filteredResults) > (RequestedPage.v + 1) * pageSize
    /\ ~RequestedPage.nan /\ RequestedPage.v > 0
    /\ response.nextPageCursor = Undefined

\* C6: previousPageCursor is absent iff the requested page is 0, and is
\* otherwise encode(page-1), which decodes to page-1, however the loop stopped.
C6_PreviousCursor ==
    Done =>
        /\ (response.previousPageCursor = Undefined) <=> NumIsZero(RequestedPage)
        /\ ~NumIsZero(RequestedPage) =>
              /\ response.previousPageCursor = encodePageCursor(NumAdd(RequestedPage, -1))
              /\ decodePageCursor(response.previousPageCursor) = NumAdd(RequestedPage, -1)

C6_Witness ==
    /\ Done
    /\ Exhausted
    /\ RequestedPage = Num(2)
    /\ response.previousPageCursor = encodePageCursor(Num(1))
    /\ decodePageCursor(response.previousPageCursor) = Num(1)

\* C7 as stated: with a budget of 0 ms the loop performs at most one
\* fetch+filter cycle and the response carries no nextPageCursor, whatever the
\* timing of the first cycle.
C7_ZeroBudgetOneCycle ==
    queryLatencyBudgetMs = 0 =>
        /\ Len(engineCalls) <= 1
        /\ Done => response.nextPageCursor = Undefined

\* C7 as amended: with a budget of 0 ms, if the elapsed time read at the end
\* of the first cycle is more than 0 ms, the loop performs one cycle only and
\* the response carries no nextPageCursor.
C7_ZeroBudgetOneMeasuredCycle ==
    ( /\ queryLatencyBudgetMs = 0
      /\ elapsedLog # << >>
      /\ elapsedLog[1] > 0 )
    => /\ Len(engineCalls) = 1
       /\ Len(elapsedLog) = 1
       /\ Done
       /\ response.nextPageCursor = Undefined

C7_Witness ==
    /\ queryLatencyBudgetMs = 0
    /\ Done
    /\ elapsedLog[1] > 0
    /\ Len(engineCalls) = 1
    /\ nextPage.nextPageCursor # Undefined
    /\ IntLtNum(Len(filteredResults), targetResults)

\* C8: within one query no (permission, resourceRef) request is sent to the
\* authorizer more than once, over all the batches dispatched.
C8_EachRequestOnce ==
    \A i, j \in DOMAIN AllRequests : AllRequests[i] = AllRequests[j] => i = j

\* C9: decode(encode(p)) = p for every page p >= 0, and an absent token
\* decodes to page 0.
C9_CodecRoundTrip ==
    /\ cpc = "decoded" => cresult = cpage
    /\ cpc = "decodedAbsent" => cresult = Num(0)

C9_Witness ==
    /\ cpc = "decoded"
    /\ cpage = Num(100)
    /\ ctoken = << "M", "T", "A", "w" >>
    /\ cresult = Num(100)

\* C10: if the budget is not exhausted, the results returned for page k >= 0
\* are A[k*P : (k+1)*P], A being all the results over all engine pages that
\* pass the filter, in engine order, however the engine pages them.
C10_PageOfAuthorized ==
    ( /\ Done
      /\ ~Exhausted
      /\ ~RequestedPage.nan
      /\ RequestedPage.v >= 0 )
    => response.results =
           SubSeq(AllAuthorized,
                  RequestedPage.v * pageSize + 1,
                  Min((RequestedPage.v + 1) * pageSize, Len(AllAuthorized)))

C10_Witness ==
    /\ Done
    /\ ~Exhausted
    /\ RequestedPage = Num(1)
    /\ Len(response.results) = pageSize
    /\ Len(engineCalls) >= 3
    /\ Len(fetched) > Len(filteredResults)
    /\ Len(AllAuthorized) > Len(filteredResults)
    /\ response.previousPageCursor # Undefined
    /\ response.nextPageCursor # Undefined

\* whether the requested page is an integer >= 0
ValidPage == ~RequestedPage.nan /\ RequestedPage.v >= 0

\* C11: if the budget is not exhausted and A, the authorized results over all
\* engine pages, has fewer than (k+1)*P elements, the response for page k
\* carries no nextPageCursor; if A has more than (k+1)*P elements, it carries
\* nextPageCursor = encode(k+1).
C11_NextCursorFollowsAuthorized ==
    ( Done /\ ~Exhausted /\ ValidPage )
    => /\ Len(AllAuthorized) < (RequestedPage.v + 1) * pageSize
             => response.nextPageCursor = Undefined
       /\ Len(AllAuthorized) > (RequestedPage.v + 1) * pageSize
             => response.nextPageCursor = encodePageCursor(Num(RequestedPage.v + 1))

C11_Witness ==
    /\ Done
    /\ ~Exhausted
    /\ RequestedPage = Num(1)
    /\ nextPage.nextPageCursor = Undefined
    /\ Len(fetched) > Len(filteredResults)
    /\ Len(AllAuthorized) > 2 * pageSize
    /\ response.nextPageCursor = encodePageCursor(Num(2))

\* C12: a page token that is not the encoding of an integer >= 0 is treated
\* as page 0 or rejected: the query never proceeds with a page that is
\* negative or not a number, and never returns a cursor that decodes to one.
C12_MalformedCursorNeverUsed ==
    /\ pc \in {"fetch", "filter", "checkStop", "done"}
          => ~page.nan /\ page.v >= 0
    /\ Done =>
          \A c \in {response.previousPageCursor, response.nextPageCursor} \ {Undefined} :
              ~decodePageCursor(c).nan /\ decodePageCursor(c).v >= 0

\* the number of fetch+filter cycles that have completed their filtering
FilteredCycles ==
    IF pc = "filter" \/ failure.at \in {"fetch", "filter"}
    THEN Len(engineCalls) - 1
    ELSE Len(engineCalls)

\* what passes the result filter, by the decisions the authorizer holds
Passes(r) == PassesUnchecked(r) \/ ResourceDecision(r) = ALLOW

\* C17: engine fetches are sequential and chained by the engine's own cursor:
\* the first fetch passes no cursor (the client's page cursor is not
\* forwarded), each later fetch passes the nextPageCursor the fetch before it
\* returned, and while the filtering of a page is outstanding no further fetch
\* has been issued: at every fetch the accumulator holds the filtered results
\* of all the pages fetched before.
C17_FetchesChained ==
    /\ \A n \in DOMAIN engineCalls :
          engineCalls[n].pageCursor =
              IF n = 1 THEN Undefined
              ELSE EngineQuery(engineCalls[n - 1].types,
                               engineCalls[n - 1].pageCursor).nextPageCursor
    /\ Len(elapsedLog) \in {FilteredCycles - 1, FilteredCycles}
    /\ pc \in {"filter", "checkStop", "fetch", "done"} =>
          filteredResults = SelectSeq(Filtered, Passes)
    /\ pc = "filter" =>
          /\ nextPage = EngineQuery(engineCalls[Len(engineCalls)].types,
                                    engineCalls[Len(engineCalls)].pageCursor)
          /\ fetched = Filtered \o nextPage.results

C17_Witness ==
    /\ pc = "filter"
    /\ Len(engineCalls) = 3
    /\ query.pageCursor = encodePageCursor(Num(2))
    /\ engineCalls[1].pageCursor = Undefined
    /\ engineCalls[3].pageCursor = encodePageCursor(Num(2))
    /\ Len(Filtered) > Len(filteredResults)
    /\ filteredResults # << >>
    /\ \E r \in Range(nextPage.results) : r.id \notin resourceChecked /\ ~PassesUnchecked(r)

\* the decision the authorizer holds on a type
PolicyTypeDecision(t) ==
    IF types[t] = NoPermission THEN ALLOW ELSE decisions[<< types[t], NoRef >>]

\* the types a query asks for
RequestedTypes == IF query.types = Undefined THEN TypeNames ELSE query.types

\* C18: on every engine fetch the types passed are the requested types (all
\* registry types when the query names none) minus those decided DENY; a type
\* without a permission is decided ALLOW with no authorizer request, every
\* type with a permission gets one permission-only request; and the type
\* decisions are resolved before the first fetch.
C18_TypesPassedToEngine ==
    /\ \A n \in DOMAIN engineCalls :
          engineCalls[n].types =
              SelectSeq(RequestedTypes, LAMBDA t : PolicyTypeDecision(t) # DENY)
    /\ pc \in {"idle", "authorizeTypes"} => engineCalls = << >>
    /\ engineCalls # << >> =>
          /\ DOMAIN typeDecisions = Range(RequestedTypes)
          /\ \A t \in Range(RequestedTypes) : typeDecisions[t] = PolicyTypeDecision(t)
          /\ LET withPermission ==
                     SelectSeq(RequestedTypes, LAMBDA t : types[t] # NoPermission)
                 typeRequests ==
                     SelectSeq(AllRequests, LAMBDA q : q.resourceRef = NoRef)
             IN  /\ typeRequests =
                        [i \in DOMAIN withPermission |->
                            [permission |-> types[withPermission[i]], resourceRef |-> NoRef]]
                 /\ withPermission # << >> => authCalls[1] = typeRequests

C18_Witness ==
    /\ Len(engineCalls) = 2
    /\ query.types = Undefined
    /\ engineCalls[2].types = << "t1", "t3", "t4" >>
    /\ typeDecisions["t1"] = CONDITIONAL
    /\ typeDecisions["t2"] = DENY
    /\ Len(authCalls[1]) = 3

\* the state right after the loop has decided to stop, and right after it has
\* decided to go round
LoopStopped == Done
LoopWentRound == pc = "fetch" /\ engineCalls # << >>

\* C16 as stated: after each fetch+filter cycle the loop stops iff the engine
\* response carried no next cursor, or the accumulator holds at least
\* (page+1)*P results, or the time elapsed since the start of the loop is more
\* than the budget; otherwise one more fetch is issued; the budget is
\* evaluated at that point only.
C16_StopsIffSinceLoopStart ==
    LET stop == \/ nextPageCursor = Undefined
                \/ Len(filteredResults) >= (RequestedPage.v + 1) * pageSize
                \/ now - loopStartTime > queryLatencyBudgetMs
    IN  ValidPage =>
            /\ LoopStopped => stop
            /\ LoopWentRound => ~stop
            /\ Len(elapsedLog) \in {FilteredCycles - 1, FilteredCycles}

\* C16 as amended: the same, with the elapsed time measured from the start of
\* the query, before the type-level authorization, and with a target that is
\* not a number counting as reached.
C16_StopsIffSinceQueryStart ==
    LET stop == \/ nextPageCursor = Undefined
                \/ RequestedPage.nan
                \/ Len(filteredResults) >= (RequestedPage.v + 1) * pageSize
                \/ now - queryStartTime > queryLatencyBudgetMs
    IN  /\ LoopStopped => stop
        /\ LoopWentRound => ~stop
        /\ Len(elapsedLog) \in {FilteredCycles - 1, FilteredCycles}
        /\ latencyBudgetExhausted = Exhausted
        /\ \A i \in DOMAIN elapsedLog : i < Len(elapsedLog) =>
               elapsedLog[i] <= queryLatencyBudgetMs

C16_Witness ==
    /\ LoopStopped
    /\ ValidPage
    /\ nextPageCursor # Undefined
    /\ Len(filteredResults) < (RequestedPage.v + 1) * pageSize
    /\ now - queryStartTime > queryLatencyBudgetMs
    /\ now - loopStartTime <= queryLatencyBudgetMs
    /\ queryLatencyBudgetMs = DefaultQueryLatencyBudgetMs

\* C20 as stated: whenever query returns a nextPageCursor for page k, A, the
\* authorized results over all engine pages, holds more than (k+1)*P elements,
\* so that page k+1 holds at least one result.
C20_NextPageExists ==
    ( Done /\ ValidPage /\ response.nextPageCursor # Undefined )
    => Len(AllAuthorized) > (RequestedPage.v + 1) * pageSize

\* C20 as amended: whenever query returns a nextPageCursor for page k >= 0,
\* the returned page is full and A holds at least (k+1)*P elements; A holds
\* more than that, so that page k+1 is not empty, when the engine reported no
\* further page at the time the loop stopped.
C20_NextPageMayBeEmpty ==
    ( Done /\ ValidPage /\ response.nextPageCursor # Undefined )
    => /\ Len(response.results) = pageSize
       /\ Len(AllAuthorized) >= (RequestedPage.v + 1) * pageSize
       /\ nextPage.nextPageCursor = Undefined
             => Len(AllAuthorized) > (RequestedPage.v + 1) * pageSize

C20_Witness ==
    /\ Done
    /\ RequestedPage = Num(1)
    /\ response.nextPageCursor = encodePageCursor(Num(2))
    /\ nextPage.nextPageCursor # Undefined
    /\ Len(AllAuthorized) = 2 * pageSize
    /\ Len(response.results) = pageSize
    /\ Len(fetched) > Len(filteredResults)
    /\ Len(Flatten(enginePages)) > Len(fetched)

\* what the /query route of the router sends for the invocation
RouterReply ==
    IF pc = "failed" THEN "error" ELSE IF Done THEN "resultSet" ELSE "pending"

\* C13: if an engine fetch or an authorizer call fails, the query fails: no
\* result set is returned, the failed call is not retried, no engine fetch
\* and no authorizer call follows it, and the results of the page whose
\* authorization failed are neither added to the accumulator nor returned.
C13_FailureIsFatal ==
    /\ failure.at # "none" =>
          /\ pc = "failed"
          /\ RouterReply = "error"
          /\ response = NoResponse
          /\ Len(engineCalls) = failure.engineCalls
          /\ Len(authCalls) = failure.authCalls
          /\ filteredResults = SelectSeq(Filtered, Passes)
    /\ pc = "failed" => failure.at # "none"
    /\ Done => failure.at = "none"

C13_Witness ==
    /\ failure.at = "filter"
    /\ Len(engineCalls) = 2
    /\ Len(authCalls) = 3
    /\ filteredResults # << >>
    /\ Len(fetched) > Len(Filtered)
    /\ nextPage.nextPageCursor # Undefined
    /\ response = NoResponse

\* C15: readMicrosoftGraphConfig throws, and returns no provider list, if any
\* provider entry sets both userFilter and userGroupMemberFilter, whatever
\* entries precede it; otherwise it returns one provider per entry, in the
\* order of the configuration.
C15_ConfigFailsFast ==
    cfgPc \in {"returned", "thrown"} =>
        LET entries == IF cfgProviders = << >> THEN << >> ELSE cfgProviders[1]
            both(e) == e.userFilter # Undefined /\ e.userGroupMemberFilter # Undefined
        IN  IF \E i \in DOMAIN entries : both(entries[i])
            THEN /\ cfgPc = "thrown"
                 /\ cfgResult.thrown
                 /\ cfgResult.providers = << >>
            ELSE /\ cfgPc = "returned"
                 /\ ~cfgResult.thrown
                 /\ Len(cfgResult.providers) = Len(entries)
                 /\ \A i \in DOMAIN entries :
                       LET p == cfgResult.providers[i]
                       IN  /\ p.tenantId = entries[i].tenantId
                           /\ p.userFilter = entries[i].userFilter
                           /\ p.userGroupMemberFilter = entries[i].userGroupMemberFilter
                           /\ p.groupFilter = entries[i].groupFilter
                           /\ p.target \in { << "g" >>, << "g", "/", "v" >> }
                           /\ p.authority \in { DefaultAuthority, << "a" >> }

C15_Witness ==
    /\ cfgPc = "thrown"
    /\ Len(cfgProviders[1]) = 3
    /\ cfgProviders[1][1].userFilter # Undefined
    /\ cfgProviders[1][1].userGroupMemberFilter = Undefined
    /\ cfgProviders[1][2].userFilter # Undefined
    /\ cfgProviders[1][2].userGroupMemberFilter # Undefined
    /\ cfgResult.providers = << >>

\* C19: a query invocation eventually completes, with a result set or a
\* failure, when every engine fetch and every authorizer call completes and
\* the clock advances on every cycle, even against an engine that reports a
\* further page forever and yields no authorized result.
C19_QueryCompletes == <>(pc \in {"done", "failed"})

C19_Witness ==
    /\ Done
    /\ engineMode = "endless"
    /\ queryLatencyBudgetMs = LiveBudget
    /\ Len(engineCalls) >= 3
    /\ fetched # << >>
    /\ filteredResults = << >>
    /\ nextPage.nextPageCursor # Undefined
    /\ latencyBudgetExhausted
    /\ response.nextPageCursor = Undefined

\* the two invocations, each with its own locals
Invocations == { Context, suspended }

\* the results of an invocation whose filtering has completed
FilteredOf(inv) ==
    IF inv.pc = "filter" \/ inv.failure.at = "filter"
    THEN SubSeq(inv.fetched, 1, Len(inv.fetched) - Len(inv.nextPage.results))
    ELSE inv.fetched

\* what the authorizer decides for the caller of an invocation
TypeDecisionFor(inv, t) ==
    IF types[t] = NoPermission THEN ALLOW ELSE PolicyOf(inv.options)[<< types[t], NoRef >>]

PassesFor(inv, r) ==
    \/ TypeDecisionFor(inv, r.type) = ALLOW
    \/ types[r.type] = NoPermission
    \/ r.resourceRef = NoRef
    \/ PolicyOf(inv.options)[<< types[r.type], r.resourceRef >>] = ALLOW

\* C14: for any interleaving of two invocations of query on one engine, every
\* authorizer call carries the options of the invocation that issued it, the
\* loaders share no cache entry, each invocation follows its own engine
\* cursor, and each invocation includes and excludes results by the decisions
\* made for its own caller only.
C14_InvocationsIsolated ==
    /\ \A inv \in Invocations :
          /\ \A i \in DOMAIN inv.authOptions : inv.authOptions[i] = inv.options
          /\ Len(inv.authOptions) = Len(inv.authCalls)
          /\ inv.pc \in {"fetch", "filter", "checkStop", "done"} =>
                /\ \A t \in DOMAIN inv.typeDecisions :
                      inv.typeDecisions[t] = TypeDecisionFor(inv, t)
                /\ inv.filteredResults =
                      SelectSeq(FilteredOf(inv), LAMBDA r : PassesFor(inv, r))
          /\ \A n \in DOMAIN inv.engineCalls :
                inv.engineCalls[n].pageCursor =
                    IF n = 1 THEN Undefined
                    ELSE EngineQuery(inv.engineCalls[n - 1].types,
                                     inv.engineCalls[n - 1].pageCursor).nextPageCursor
          /\ inv.pc = "done" =>
                inv.response.results = SubSeq(inv.filteredResults, 1,
                                              Min(pageSize, Len(inv.filteredResults)))
    /\ DOMAIN loaderCache \cap DOMAIN suspended.loaderCache = {}

C14_Witness ==
    /\ pc = "done"
    /\ suspended.pc = "done"
    /\ options.token # suspended.options.token
    /\ query = suspended.query
    /\ response.results # << >>
    /\ suspended.response.results # << >>
    /\ response.results # suspended.response.results
    /\ \E k1, k3 \in DOMAIN loaderCache, k2 \in DOMAIN suspended.loaderCache :
          k1.oid < k2.oid /\ k2.oid < k3.oid
    /\ Len(engineCalls) = 2
    /\ Len(suspended.engineCalls) = 2

====
